---- MODULE Spec2Model ----
(***************************************************************************)
(* A model of the single-producer single-consumer ring buffer of          *)
(* src/src/lib.rs.  Every access to one of the two atomic cursors and     *)
(* every access to a slot is one step, so the producer's push and the     *)
(* consumer's pull and len interleave at the granularity of the shared    *)
(* memory accesses.  The atomic cursors are written by one side each and  *)
(* read with acquire / written with release ordering, so an interleaving  *)
(* of the accesses is what the two threads can observe.  The cursors are  *)
(* usize counters: they are modelled as CounterBits-bit counters that     *)
(* wrap modulo 2^CounterBits.                                             *)
(***************************************************************************)
EXTENDS Integers, Sequences, FiniteSets, TLC

\* ---------------------------------------------------------------- bounds
CounterBits == 3        \* width of the usize counters of the model
MaxN == 4               \* the capacities N tried are 0..MaxN
MaxPush == 8            \* accepted pushes per run (ends the run)
StressK == 7            \* the doctest's N (number of items sent), a usize
MaxWrapPush == 18       \* accepted pushes per run of the wraparound runs

Modulus == 2 ^ CounterBits
\* T is instantiated at a two-valued element type
Values == {0, 1}
Capacities == 0 .. (IF MaxN < Modulus THEN MaxN ELSE Modulus - 1)

VARIABLES
    N,              \* const generic N of RingBuffer<T, N>
    buffer,         \* RingBuffer.buffer: slot -> << >> (uninit) or <<v>>
    idx_r,          \* RingBuffer.idx_r
    idx_w,          \* RingBuffer.idx_w
    cached_idx_r,   \* RingBufferWriter.cached_idx_r
    local_idx_w,    \* RingBufferWriter.local_idx_w
    local_idx_r,    \* RingBufferReader.local_idx_r
    cached_idx_w,   \* RingBufferReader.cached_idx_w
    wpc,            \* where the producer is inside push
    rpc,            \* where the consumer is inside pull / len
    push_t,         \* argument t of the push in progress: << >> or <<v>>
    pull_t,         \* local t of the pull in progress: << >> or <<v>>
    push_ret,       \* value returned by the last push, until the next call
    pull_ret,       \* value returned by the last pull, until the next call
    len_ret,        \* value returned by the last len, until the next call
    write_index,    \* local write_index of len: << >> or <<i>>
    read_index,     \* local read_index of len: << >> or <<i>>
    writer_alive,   \* the RingBufferWriter handle exists
    reader_alive,   \* the RingBufferReader handle exists
    init_panicked,  \* the assert! of init() failed
    torn_down,      \* Drop for RingBuffer has run
    pushed,         \* history: values of the pushes that returned None
    pulled,         \* history: values of the pulls that returned Some
    destructed,     \* history: <<cursor, slot>> of every slot Drop dropped
    push_occ,       \* history: occupancy seen at the deciding check of push
    pull_occ,       \* history: occupancy seen at the deciding check of pull
    p_current,      \* doctest producer: current
    c_current,      \* doctest consumer: current
    c_failed,       \* doctest consumer: assert_eq! failed
    p_done,         \* doctest producer closure returned
    c_done,         \* doctest consumer closure returned
    script,         \* sequential test: the calls to make, in order
    log             \* sequential test: the calls made, with what they returned

shared == <<N, buffer, idx_r, idx_w>>
writer == <<cached_idx_r, local_idx_w, wpc, push_t, push_ret, push_occ>>
reader == <<local_idx_r, cached_idx_w, rpc, pull_t, pull_ret, pull_occ>>
lenv == <<len_ret, write_index, read_index>>
life == <<writer_alive, reader_alive, init_panicked, torn_down, destructed>>
hist == <<pushed, pulled>>
doctest == <<p_current, c_current, c_failed, p_done, c_done>>
driver == <<doctest, script, log>>
vars == <<shared, writer, reader, lenv, life, hist, driver>>

\* ------------------------------------------------------------ arithmetic
WrapSub(a, b) == (a - b + Modulus) % Modulus
WrapAdd(a, b) == (a + b) % Modulus

RECURSIVE BitAnd(_, _)
BitAnd(a, b) ==
    IF a = 0 \/ b = 0 THEN 0
    ELSE (a % 2) * (b % 2) + 2 * BitAnd(a \div 2, b \div 2)

IsPowerOfTwo(n) == n # 0 /\ BitAnd(n, n - 1) = 0

\* get_mut: the physical slot of a cursor value
SlotOf(idx) == BitAnd(idx, N - 1)

NoRet == << >>
RetNone == <<"None">>
RetSome(v) == <<"Some", v>>

\* assume_init() of a slot: its value, or any value when it is uninitialised
AssumeInit(slot) == IF slot = << >> THEN Values ELSE {slot[1]}

\* ------------------------------------------------------------------ init
\* init() without the assert! on the capacity
Construct_NoAssert ==
    /\ N \in Capacities
    /\ init_panicked = FALSE
    /\ buffer = [i \in 0 .. N - 1 |-> << >>]
    /\ idx_r = 0
    /\ idx_w = 0
    /\ cached_idx_r = 0
    /\ local_idx_w = 0
    /\ local_idx_r = 0
    /\ cached_idx_w = 0
    /\ writer_alive = TRUE
    /\ reader_alive = TRUE
    /\ torn_down = FALSE
    /\ wpc = "idle"
    /\ rpc = "idle"
    /\ push_t = << >>
    /\ pull_t = << >>
    /\ push_ret = NoRet
    /\ pull_ret = NoRet
    /\ len_ret = NoRet
    /\ write_index = << >>
    /\ read_index = << >>
    /\ pushed = << >>
    /\ pulled = << >>
    /\ destructed = << >>
    /\ push_occ = << >>
    /\ pull_occ = << >>
    /\ p_current = 0
    /\ c_current = 0
    /\ c_failed = FALSE
    /\ p_done = FALSE
    /\ c_done = FALSE
    /\ log = << >>

\* lines 66-88: init(), for each capacity N
Construct ==
    /\ N \in Capacities
    /\ init_panicked = ~IsPowerOfTwo(N)
    /\ buffer = IF IsPowerOfTwo(N) THEN [i \in 0 .. N - 1 |-> << >>] ELSE << >>
    /\ idx_r = 0
    /\ idx_w = 0
    /\ cached_idx_r = 0
    /\ local_idx_w = 0
    /\ local_idx_r = 0
    /\ cached_idx_w = 0
    /\ writer_alive = IsPowerOfTwo(N)
    /\ reader_alive = IsPowerOfTwo(N)
    /\ torn_down = FALSE
    /\ wpc = "idle"
    /\ rpc = "idle"
    /\ push_t = << >>
    /\ pull_t = << >>
    /\ push_ret = NoRet
    /\ pull_ret = NoRet
    /\ len_ret = NoRet
    /\ write_index = << >>
    /\ read_index = << >>
    /\ pushed = << >>
    /\ pulled = << >>
    /\ destructed = << >>
    /\ push_occ = << >>
    /\ pull_occ = << >>
    /\ p_current = 0
    /\ c_current = 0
    /\ c_failed = FALSE
    /\ p_done = FALSE
    /\ c_done = FALSE
    /\ log = << >>

Init == Construct /\ script = << >>

\* ------------------------------------------------------------------ push
\* PushCheck whose subtraction does not wrap
PushCheck_NoWrap(t) ==
    /\ writer_alive
    /\ wpc = "idle"
    /\ push_t' = <<t>>
    /\ push_ret' = NoRet
    /\ IF local_idx_w - cached_idx_r = N
       THEN /\ wpc' = "load"
            /\ push_occ' = << >>
       ELSE /\ wpc' = "store"
            /\ push_occ' = <<WrapSub(local_idx_w, idx_r)>>
    /\ UNCHANGED <<cached_idx_r, local_idx_w>>
    /\ UNCHANGED <<shared, reader, lenv, life, hist, driver>>

\* line 129: the check against the cached read cursor
PushCheck(t) ==
    /\ writer_alive
    /\ wpc = "idle"
    /\ push_t' = <<t>>
    /\ push_ret' = NoRet
    /\ IF WrapSub(local_idx_w, cached_idx_r) = N
       THEN /\ wpc' = "load"
            /\ push_occ' = << >>
       ELSE /\ wpc' = "store"
            /\ push_occ' = <<WrapSub(local_idx_w, idx_r)>>
    /\ UNCHANGED <<cached_idx_r, local_idx_w>>
    /\ UNCHANGED <<shared, reader, lenv, life, hist, driver>>

\* PushLoad that waits for a free slot instead of returning Some(t)
PushLoad_Wait ==
    /\ wpc = "load"
    /\ WrapSub(local_idx_w, idx_r) # N
    /\ cached_idx_r' = idx_r
    /\ push_occ' = <<WrapSub(local_idx_w, idx_r)>>
    /\ wpc' = "store"
    /\ UNCHANGED <<push_ret, push_t, local_idx_w>>
    /\ UNCHANGED <<shared, reader, lenv, life, hist, driver>>

\* PushLoad that goes on to store whatever the refreshed cursor says
PushLoad_NoRecheck ==
    /\ wpc = "load"
    /\ cached_idx_r' = idx_r
    /\ push_occ' = <<WrapSub(local_idx_w, idx_r)>>
    /\ wpc' = "store"
    /\ UNCHANGED <<push_ret, push_t, local_idx_w>>
    /\ UNCHANGED <<shared, reader, lenv, life, hist, driver>>

\* PushLoad that checks again without refreshing the cached read cursor
PushLoad_Stale ==
    /\ wpc = "load"
    /\ push_occ' = <<WrapSub(local_idx_w, idx_r)>>
    /\ IF WrapSub(local_idx_w, cached_idx_r) = N
       THEN /\ wpc' = "idle"
            /\ push_ret' = RetSome(push_t[1])
            /\ push_t' = << >>
       ELSE /\ wpc' = "store"
            /\ UNCHANGED <<push_ret, push_t>>
    /\ UNCHANGED <<cached_idx_r, local_idx_w>>
    /\ UNCHANGED <<shared, reader, lenv, life, hist, driver>>

\* PushLoad that stores the element before it checks again
PushLoad_EagerStore ==
    /\ wpc = "load"
    /\ cached_idx_r' = idx_r
    /\ push_occ' = <<WrapSub(local_idx_w, idx_r)>>
    /\ buffer' = [buffer EXCEPT ![SlotOf(local_idx_w)] = push_t]
    /\ IF WrapSub(local_idx_w, cached_idx_r') = N
       THEN /\ wpc' = "idle"
            /\ push_ret' = RetSome(push_t[1])
            /\ push_t' = << >>
       ELSE /\ wpc' = "store"
            /\ UNCHANGED <<push_ret, push_t>>
    /\ UNCHANGED <<local_idx_w, N, idx_r, idx_w>>
    /\ UNCHANGED <<reader, lenv, life, hist, driver>>

\* lines 130-134: refresh the cached read cursor and check again
PushLoad ==
    /\ wpc = "load"
    /\ cached_idx_r' = idx_r
    /\ push_occ' = <<WrapSub(local_idx_w, idx_r)>>
    /\ IF WrapSub(local_idx_w, cached_idx_r') = N
       THEN /\ wpc' = "idle"
            /\ push_ret' = RetSome(push_t[1])
            /\ push_t' = << >>
       ELSE /\ wpc' = "store"
            /\ UNCHANGED <<push_ret, push_t>>
    /\ UNCHANGED local_idx_w
    /\ UNCHANGED <<shared, reader, lenv, life, hist, driver>>

\* PushStore that advances the cursor before it picks the slot
PushStore_NextSlot ==
    /\ wpc = "store"
    /\ buffer' = [buffer EXCEPT ![SlotOf(WrapAdd(local_idx_w, 1))] = push_t]
    /\ wpc' = "publish"
    /\ UNCHANGED <<N, idx_r, idx_w>>
    /\ UNCHANGED <<cached_idx_r, local_idx_w, push_t, push_ret, push_occ>>
    /\ UNCHANGED <<reader, lenv, life, hist, driver>>

\* PushStore that publishes the advanced write cursor before the element
\* is stored
PushStore_PublishFirst ==
    /\ wpc = "store"
    /\ idx_w' = WrapAdd(local_idx_w, 1)
    /\ wpc' = "publish"
    /\ UNCHANGED <<N, idx_r, buffer>>
    /\ UNCHANGED <<cached_idx_r, local_idx_w, push_t, push_ret, push_occ>>
    /\ UNCHANGED <<reader, lenv, life, hist, driver>>

\* line 138: store the element into the slot of the local write cursor
PushStore ==
    /\ wpc = "store"
    /\ buffer' = [buffer EXCEPT ![SlotOf(local_idx_w)] = push_t]
    /\ wpc' = "publish"
    /\ UNCHANGED <<N, idx_r, idx_w>>
    /\ UNCHANGED <<cached_idx_r, local_idx_w, push_t, push_ret, push_occ>>
    /\ UNCHANGED <<reader, lenv, life, hist, driver>>

\* PushPublish without the release store of the write cursor
PushPublish_NoStore ==
    /\ wpc = "publish"
    /\ local_idx_w' = WrapAdd(local_idx_w, 1)
    /\ push_ret' = RetNone
    /\ pushed' = Append(pushed, push_t[1])
    /\ push_t' = << >>
    /\ wpc' = "idle"
    /\ UNCHANGED <<N, buffer, idx_r, idx_w>>
    /\ UNCHANGED <<cached_idx_r, push_occ, pulled>>
    /\ UNCHANGED <<reader, lenv, life, driver>>

\* lines 140-143: advance the local write cursor, publish it, return None
PushPublish ==
    /\ wpc = "publish"
    /\ local_idx_w' = WrapAdd(local_idx_w, 1)
    /\ idx_w' = local_idx_w'
    /\ push_ret' = RetNone
    /\ pushed' = Append(pushed, push_t[1])
    /\ push_t' = << >>
    /\ wpc' = "idle"
    /\ UNCHANGED <<N, buffer, idx_r>>
    /\ UNCHANGED <<cached_idx_r, push_occ, pulled>>
    /\ UNCHANGED <<reader, lenv, life, driver>>

\* ------------------------------------------------------------------ pull
\* line 179: the check against the cached write cursor
PullCheck ==
    /\ reader_alive
    /\ rpc = "idle"
    /\ pull_ret' = NoRet
    /\ len_ret' = NoRet
    /\ write_index' = << >>
    /\ read_index' = << >>
    /\ IF local_idx_r = cached_idx_w
       THEN /\ rpc' = "load"
            /\ pull_occ' = << >>
       ELSE /\ rpc' = "take"
            /\ pull_occ' = <<WrapSub(idx_w, local_idx_r)>>
    /\ UNCHANGED <<local_idx_r, cached_idx_w, pull_t>>
    /\ UNCHANGED <<shared, writer, life, hist, driver>>

\* PullLoad that checks again without refreshing the cached write cursor
PullLoad_Stale ==
    /\ rpc = "load"
    /\ pull_occ' = <<WrapSub(idx_w, local_idx_r)>>
    /\ IF local_idx_r = cached_idx_w
       THEN /\ rpc' = "idle"
            /\ pull_ret' = RetNone
       ELSE /\ rpc' = "take"
            /\ UNCHANGED pull_ret
    /\ UNCHANGED <<local_idx_r, cached_idx_w, pull_t>>
    /\ UNCHANGED <<shared, writer, lenv, life, hist, driver>>

\* PullLoad that steps over a slot when it finds the buffer empty
PullLoad_SkipOnEmpty ==
    /\ rpc = "load"
    /\ cached_idx_w' = idx_w
    /\ pull_occ' = <<WrapSub(idx_w, local_idx_r)>>
    /\ IF local_idx_r = cached_idx_w'
       THEN /\ rpc' = "idle"
            /\ pull_ret' = RetNone
            /\ local_idx_r' = WrapAdd(local_idx_r, 1)
       ELSE /\ rpc' = "take"
            /\ UNCHANGED <<pull_ret, local_idx_r>>
    /\ UNCHANGED pull_t
    /\ UNCHANGED <<shared, writer, lenv, life, hist, driver>>

\* lines 181-188: refresh the cached write cursor and check again
PullLoad ==
    /\ rpc = "load"
    /\ cached_idx_w' = idx_w
    /\ pull_occ' = <<WrapSub(idx_w, local_idx_r)>>
    /\ IF local_idx_r = cached_idx_w'
       THEN /\ rpc' = "idle"
            /\ pull_ret' = RetNone
       ELSE /\ rpc' = "take"
            /\ UNCHANGED pull_ret
    /\ UNCHANGED <<local_idx_r, pull_t>>
    /\ UNCHANGED <<shared, writer, lenv, life, hist, driver>>

\* PullTake that takes the newest element instead of the oldest
PullTake_Newest ==
    /\ rpc = "take"
    /\ \E v \in AssumeInit(buffer[SlotOf(WrapSub(cached_idx_w, 1))]) :
          pull_t' = <<v>>
    /\ buffer' = [buffer EXCEPT ![SlotOf(WrapSub(cached_idx_w, 1))] = << >>]
    /\ rpc' = "publish"
    /\ UNCHANGED <<N, idx_r, idx_w>>
    /\ UNCHANGED <<local_idx_r, cached_idx_w, pull_ret, pull_occ>>
    /\ UNCHANGED <<writer, lenv, life, hist, driver>>

\* lines 191-194: move the element out of the slot of the local read cursor
PullTake ==
    /\ rpc = "take"
    /\ \E v \in AssumeInit(buffer[SlotOf(local_idx_r)]) : pull_t' = <<v>>
    /\ buffer' = [buffer EXCEPT ![SlotOf(local_idx_r)] = << >>]
    /\ rpc' = "publish"
    /\ UNCHANGED <<N, idx_r, idx_w>>
    /\ UNCHANGED <<local_idx_r, cached_idx_w, pull_ret, pull_occ>>
    /\ UNCHANGED <<writer, lenv, life, hist, driver>>

\* lines 197-201: advance the local read cursor, publish it, return Some(t)
PullPublish ==
    /\ rpc = "publish"
    /\ local_idx_r' = WrapAdd(local_idx_r, 1)
    /\ idx_r' = local_idx_r'
    /\ pull_ret' = RetSome(pull_t[1])
    /\ pulled' = Append(pulled, pull_t[1])
    /\ pull_t' = << >>
    /\ rpc' = "idle"
    /\ UNCHANGED <<N, buffer, idx_w>>
    /\ UNCHANGED <<cached_idx_w, pull_occ, pushed>>
    /\ UNCHANGED <<writer, lenv, life, driver>>

\* ------------------------------------------------------------------- len
\* lines 156-157: load the shared write cursor, copy the local read cursor
LenLoad ==
    /\ reader_alive
    /\ rpc = "idle"
    /\ write_index' = <<idx_w>>
    /\ read_index' = <<local_idx_r>>
    /\ len_ret' = NoRet
    /\ pull_ret' = NoRet
    /\ rpc' = "len"
    /\ UNCHANGED <<local_idx_r, cached_idx_w, pull_t, pull_occ>>
    /\ UNCHANGED <<shared, writer, life, hist, driver>>

\* lines 163-172: the length computed from the two raw values.  The
\* arithmetic is usize arithmetic: a result outside 0 .. Modulus - 1 panics
\* in a build with overflow checks and wraps in a build without them.
LenValue(w, r) == IF w >= r THEN w - r ELSE (w + N) - r

LenOutcomes(w, r) ==
    IF w >= r \/ (w + N < Modulus /\ w + N >= r)
    THEN {<<"Ok", LenValue(w, r)>>}
    ELSE {<<"Panic">>, <<"Ok", (LenValue(w, r) + 2 * Modulus) % Modulus>>}

LenReturn ==
    /\ rpc = "len"
    /\ \E out \in LenOutcomes(write_index[1], read_index[1]) :
          /\ len_ret' = out
          /\ rpc' = IF out = <<"Panic">> THEN "panicked" ELSE "idle"
    /\ UNCHANGED <<write_index, read_index>>
    /\ UNCHANGED <<local_idx_r, cached_idx_w, pull_t, pull_ret, pull_occ>>
    /\ UNCHANGED <<shared, writer, life, hist, driver>>

\* -------------------------------------------------------------- teardown
\* lines 103-111: walk idx_r up to idx_w, dropping the slot of each cursor
\* DropWalk whose loop runs while idx_r < idx_w
RECURSIVE DropWalk_Less(_, _, _, _)
DropWalk_Less(r, w, buf, acc) ==
    IF r >= w THEN [buffer |-> buf, destructed |-> acc]
    ELSE DropWalk_Less(WrapAdd(r, 1), w,
                       [buf EXCEPT ![SlotOf(r)] = << >>],
                       Append(acc, <<r, buf[SlotOf(r)]>>))

RECURSIVE DropWalk(_, _, _, _)
DropWalk(r, w, buf, acc) ==
    IF r = w THEN [buffer |-> buf, destructed |-> acc]
    ELSE DropWalk(WrapAdd(r, 1), w,
                  [buf EXCEPT ![SlotOf(r)] = << >>],
                  Append(acc, <<r, buf[SlotOf(r)]>>))

\* Arc<RingBuffer>: the buffer is dropped with the last of the two handles
ReleaseArc(last) ==
    IF last
    THEN /\ torn_down' = TRUE
         /\ buffer' = DropWalk(idx_r, idx_w, buffer, << >>).buffer
         /\ destructed' = DropWalk(idx_r, idx_w, buffer, << >>).destructed
    ELSE UNCHANGED <<torn_down, buffer, destructed>>

\* drop of the RingBufferWriter handle (its field inner: Arc<RingBuffer>)
DropWriterStep ==
    /\ writer_alive
    /\ wpc = "idle"
    /\ writer_alive' = FALSE
    /\ ReleaseArc(~reader_alive)
    /\ UNCHANGED <<N, idx_r, idx_w, reader_alive, init_panicked>>
    /\ UNCHANGED <<writer, reader, lenv, hist>>

\* drop of the RingBufferReader handle, also by the unwinding of a panic
DropReaderStep ==
    /\ reader_alive
    /\ rpc \in {"idle", "panicked"}
    /\ reader_alive' = FALSE
    /\ ReleaseArc(~writer_alive)
    /\ UNCHANGED <<N, idx_r, idx_w, writer_alive, init_panicked>>
    /\ UNCHANGED <<writer, reader, lenv, hist>>

DropWriter == DropWriterStep /\ UNCHANGED driver

DropReader == DropReaderStep /\ UNCHANGED driver

\* ------------------------------------------------------- any interleaving
Push == \E t \in Values : Len(pushed) < MaxPush /\ PushCheck(t)

Next ==
    \/ Push
    \/ PushLoad
    \/ PushStore
    \/ PushPublish
    \/ PullCheck
    \/ PullLoad
    \/ PullTake
    \/ PullPublish
    \/ LenLoad
    \/ LenReturn
    \/ DropWriter
    \/ DropReader

Spec == Init /\ [][Next]_vars

\* ------------------------------------------------- the crate's doctest
\* lines 13-22: the producer thread
StressPush ==
    /\ ~p_done
    /\ p_current < StressK
    /\ push_ret = NoRet
    /\ PushCheck(p_current)

\* lines 16-17: the push returned None
StressPushed ==
    /\ wpc = "idle"
    /\ push_ret = RetNone
    /\ p_current' = WrapAdd(p_current, 1)
    /\ push_ret' = NoRet
    /\ UNCHANGED <<cached_idx_r, local_idx_w, wpc, push_t, push_occ>>
    /\ UNCHANGED <<c_current, c_failed, p_done, c_done, script, log>>
    /\ UNCHANGED <<shared, reader, lenv, life, hist>>

\* lines 18-19: the push returned Some: yield_now()
StressPushYield ==
    /\ wpc = "idle"
    /\ push_ret # NoRet
    /\ push_ret # RetNone
    /\ push_ret' = NoRet
    /\ UNCHANGED <<cached_idx_r, local_idx_w, wpc, push_t, push_occ>>
    /\ UNCHANGED <<shared, reader, lenv, life, hist, driver>>

\* lines 15, 22: the loop ends, the closure returns and drops tx
ProducerExit ==
    /\ ~p_done
    /\ p_current >= StressK
    /\ push_ret = NoRet
    /\ p_done' = TRUE
    /\ DropWriterStep
    /\ UNCHANGED <<p_current, c_current, c_failed, c_done, script, log>>

\* lines 24-27: the consumer thread
StressPull ==
    /\ ~c_done
    /\ ~c_failed
    /\ c_current < StressK
    /\ pull_ret = NoRet
    /\ PullCheck

\* lines 27-29: the pull returned Some(c)
StressPulled ==
    /\ rpc = "idle"
    /\ pull_ret # NoRet
    /\ pull_ret # RetNone
    /\ IF pull_ret[2] = c_current
       THEN c_current' = WrapAdd(c_current, 1) /\ UNCHANGED c_failed
       ELSE c_failed' = TRUE /\ UNCHANGED c_current
    /\ pull_ret' = NoRet
    /\ UNCHANGED <<local_idx_r, cached_idx_w, rpc, pull_t, pull_occ>>
    /\ UNCHANGED <<p_current, p_done, c_done, script, log>>
    /\ UNCHANGED <<shared, writer, lenv, life, hist>>

\* lines 30-31: the pull returned None: yield_now()
StressPullYield ==
    /\ rpc = "idle"
    /\ pull_ret = RetNone
    /\ pull_ret' = NoRet
    /\ UNCHANGED <<local_idx_r, cached_idx_w, rpc, pull_t, pull_occ>>
    /\ UNCHANGED <<shared, writer, lenv, life, hist, driver>>

\* lines 26, 34: the loop ends (or the assertion unwinds) and drops rx
ConsumerExit ==
    /\ ~c_done
    /\ c_current >= StressK \/ c_failed
    /\ pull_ret = NoRet
    /\ c_done' = TRUE
    /\ DropReaderStep
    /\ UNCHANGED <<p_current, c_current, c_failed, p_done, script, log>>

Producer ==
    \/ StressPush
    \/ PushLoad
    \/ PushStore
    \/ PushPublish
    \/ StressPushed
    \/ StressPushYield
    \/ ProducerExit

Consumer ==
    \/ StressPull
    \/ PullLoad
    \/ PullTake
    \/ PullPublish
    \/ StressPulled
    \/ StressPullYield
    \/ ConsumerExit

\* line 11: the doctest constructs a buffer of a valid capacity
InitStress == Init /\ IsPowerOfTwo(N)

NextStress == Producer \/ Consumer

\* the two threads are scheduled by the operating system: each one that can
\* take a step eventually takes one
SpecStress ==
    InitStress /\ [][NextStress]_vars /\ WF_vars(Producer) /\ WF_vars(Consumer)

\* ------------------------------------------------- runs past the wrap
\* Any interleaving of pushes, pulls and handle drops in which the k-th
\* accepted push carries the element k, long enough for the cursors to wrap.
WrapPush ==
    /\ Len(pushed) < MaxWrapPush
    /\ PushCheck(Len(pushed))

NextWrap ==
    \/ WrapPush
    \/ PushLoad
    \/ PushStore
    \/ PushPublish
    \/ PullCheck
    \/ PullLoad
    \/ PullTake
    \/ PullPublish
    \/ DropWriter
    \/ DropReader

SpecWrap == InitStress /\ [][NextWrap]_vars

\* ------------------------------------------- sequential test scenarios
\* One caller makes the calls of script one after the other, each call
\* running to its return before the next one starts.
PushOp(v) == <<"push", v>>
PullOp == <<"pull">>

Injective(f) == \A i, j \in DOMAIN f : f[i] = f[j] => i = j

\* K pushes of distinct values, then K pulls, then one more pull
RoundTripScript(vs) ==
    [i \in 1 .. 2 * Len(vs) + 1 |->
        IF i <= Len(vs) THEN PushOp(vs[i]) ELSE PullOp]

RoundTripScripts(n) ==
    {RoundTripScript(vs) :
        vs \in {f \in UNION {[1 .. k -> 0 .. n] : k \in 0 .. n} : Injective(f)}}

\* pushes of 0 .. n-1, a push of n, n+1 pulls, a push of n
ScenarioScript(n) ==
    [i \in 1 .. 2 * n + 3 |->
        IF i <= n + 1 THEN PushOp(i - 1)
        ELSE IF i <= 2 * n + 2 THEN PullOp
        ELSE PushOp(n)]

Scripts(n) == RoundTripScripts(n) \cup {ScenarioScript(n)}

ScriptOp == script[Len(log) + 1]

ScriptPush ==
    /\ Len(log) < Len(script)
    /\ ScriptOp[1] = "push"
    /\ push_ret = NoRet
    /\ PushCheck(ScriptOp[2])

ScriptPushReturn ==
    /\ Len(log) < Len(script)
    /\ wpc = "idle"
    /\ push_ret # NoRet
    /\ log' = Append(log, <<"push", ScriptOp[2], push_ret>>)
    /\ push_ret' = NoRet
    /\ UNCHANGED <<cached_idx_r, local_idx_w, wpc, push_t, push_occ>>
    /\ UNCHANGED <<shared, reader, lenv, life, hist, doctest, script>>

ScriptPull ==
    /\ Len(log) < Len(script)
    /\ ScriptOp[1] = "pull"
    /\ pull_ret = NoRet
    /\ PullCheck

ScriptPullReturn ==
    /\ Len(log) < Len(script)
    /\ rpc = "idle"
    /\ pull_ret # NoRet
    /\ log' = Append(log, <<"pull", pull_ret>>)
    /\ pull_ret' = NoRet
    /\ UNCHANGED <<local_idx_r, cached_idx_w, rpc, pull_t, pull_occ>>
    /\ UNCHANGED <<shared, writer, lenv, life, hist, doctest, script>>

InitScript == Construct /\ IsPowerOfTwo(N) /\ script \in Scripts(N)

NextScript ==
    \/ ScriptPush
    \/ PushLoad
    \/ PushStore
    \/ PushPublish
    \/ ScriptPushReturn
    \/ ScriptPull
    \/ PullLoad
    \/ PullTake
    \/ PullPublish
    \/ ScriptPullReturn

SpecScript == InitScript /\ [][NextScript]_vars

\* ------------------------------------------------------------ properties
IsPrefix(s, t) == Len(s) <= Len(t) /\ SubSeq(t, 1, Len(s)) = s

Occupancy == WrapSub(idx_w, idx_r)

Quiescent == wpc = "idle" /\ rpc = "idle" /\ idx_r = idx_w

Rejected == push_ret # NoRet /\ push_ret # RetNone

Returned == pull_ret # NoRet /\ pull_ret # RetNone

\* C1: the values returned by pulls are, in order, a prefix of the values
\* accepted by pushes, and are all of them once both sides are idle and the
\* buffer is drained.
C1_FifoOrder ==
    /\ IsPrefix(pulled, pushed)
    /\ Quiescent => pulled = pushed

C1_Witness ==
    /\ Quiescent
    /\ Len(pulled) >= 3
    /\ pulled = pushed
    /\ pulled[1] # pulled[2]

\* C2: the shared write cursor minus the shared read cursor, wrapped, is
\* never more than N.
C2_CapacityBound == Occupancy \in 0 .. N

C2_Witness == N = 4 /\ Occupancy = N /\ idx_w < idx_r

\* C3: a push is rejected exactly when the occupancy it faces at its
\* deciding check is N: a rejected push saw occupancy N, and a push that
\* goes on to store (or has returned None) saw occupancy below N.
C3_FullSignalExact ==
    /\ Rejected => push_occ = <<N>>
    /\ (wpc \in {"store", "publish"} \/ push_ret = RetNone)
          => (push_occ # << >> /\ push_occ[1] < N)

C3_Witness ==
    /\ Rejected
    /\ push_occ = <<N>>
    /\ Len(pulled) > 0
    /\ wpc = "idle"

\* C4: a pull returns None exactly when the occupancy it faces at its
\* deciding check is 0: an empty pull saw occupancy 0, and a pull that goes
\* on to take an element (or has returned Some) saw occupancy above 0.
C4_EmptySignalExact ==
    /\ pull_ret = RetNone => pull_occ = <<0>>
    /\ (rpc \in {"take", "publish"} \/ Returned)
          => (pull_occ # << >> /\ pull_occ[1] > 0)

C4_Witness ==
    /\ pull_ret = RetNone
    /\ pull_occ = <<0>>
    /\ Len(pulled) > 0
    /\ rpc = "idle"

\* C5: the steps of a push that is rejected hand the argument back and
\* leave the slots, both shared cursors, the local write cursor and the
\* cached read cursor as they were.
C5_RejectedPushUnchanged ==
    [][/\ (wpc = "load" /\ wpc' = "idle") =>
            /\ push_ret' = RetSome(push_t[1])
            /\ UNCHANGED <<buffer, idx_w, idx_r, local_idx_w, cached_idx_r>>
       /\ (wpc = "idle" /\ wpc' = "load") =>
            UNCHANGED <<buffer, idx_w, idx_r, local_idx_w, cached_idx_r>>]_vars

C5_Witness ==
    /\ Rejected
    /\ wpc = "idle"
    /\ rpc = "publish"
    /\ Occupancy = N

\* C6: the steps of a pull that returns None leave the slots, both shared
\* cursors, the local read cursor and the cached write cursor as they were.
C6_EmptyPullUnchanged ==
    [][/\ (rpc = "load" /\ rpc' = "idle") =>
            /\ pull_ret' = RetNone
            /\ UNCHANGED <<buffer, idx_w, idx_r, local_idx_r, cached_idx_w>>
       /\ (rpc = "idle" /\ rpc' = "load") =>
            UNCHANGED <<buffer, idx_w, idx_r, local_idx_r, cached_idx_w>>]_vars

C6_Witness ==
    /\ pull_ret = RetNone
    /\ rpc = "idle"
    /\ wpc = "publish"
    /\ Len(pulled) > 0

\* C7: on a fresh buffer, K <= N pushes of distinct values are all
\* accepted, the K pulls after them return those values in push order, and
\* one more pull returns None.
RoundTripExpected(i) ==
    LET K == (Len(script) - 1) \div 2
    IN  IF i <= K THEN <<"push", script[i][2], RetNone>>
        ELSE IF i <= 2 * K THEN <<"pull", RetSome(script[i - K][2])>>
        ELSE <<"pull", RetNone>>

C7_RoundTrip ==
    script \in RoundTripScripts(N) =>
        \A i \in 1 .. Len(log) : log[i] = RoundTripExpected(i)

C7_Witness ==
    /\ script \in RoundTripScripts(N)
    /\ N = 4
    /\ Len(script) = 2 * N + 1
    /\ Len(log) = Len(script)

\* C8: teardown drops exactly the M unread elements, those of the cursors
\* idx_r .. idx_w - 1 in order, each once and each initialised, leaves no
\* live slot, and every accepted element was either returned by one pull
\* or dropped once by the teardown.
DroppedValues == [i \in 1 .. Len(destructed) |-> destructed[i][2][1]]

C8_CleanupComplete ==
    torn_down =>
        /\ Len(destructed) = Occupancy
        /\ \A i \in 1 .. Len(destructed) :
              /\ destructed[i][1] = WrapAdd(idx_r, i - 1)
              /\ destructed[i][2] # << >>
        /\ \A i \in DOMAIN buffer : buffer[i] = << >>
        /\ pulled \o DroppedValues = pushed

C8_Witness ==
    /\ torn_down
    /\ Len(destructed) >= 2
    /\ Len(pulled) >= 1
    /\ idx_w < idx_r

\* C9: len() returns the wrapped difference of the write cursor it loaded
\* and the local read cursor, which is at most N.
C9_LenIsWrappedDifference ==
    len_ret # NoRet =>
        /\ len_ret = <<"Ok", WrapSub(write_index[1], read_index[1])>>
        /\ len_ret[2] <= N

\* C10: the doctest terminates with both threads done, the consumer having
\* received exactly 0, 1, .., StressK - 1 in this order, and its assertion
\* never fails.
StressDone ==
    /\ p_done
    /\ c_done
    /\ c_current = StressK
    /\ pulled = [i \in 1 .. StressK |-> i - 1]

C10_StressTerminates == <>StressDone /\ [](~c_failed)

C10_Witness == StressDone /\ N = 2 /\ torn_down

\* C11: on a fresh buffer of capacity N (N = 4 in the spec's scenario) the
\* pushes of 0 .. N-1 are accepted, the push of N is rejected and returns N,
\* the next N pulls return 0 .. N-1 in order, one more pull returns None, and
\* the push of N made then, with a stale cached read cursor, is accepted.
ScenarioExpected(i) ==
    IF i <= N THEN <<"push", i - 1, RetNone>>
    ELSE IF i = N + 1 THEN <<"push", N, RetSome(N)>>
    ELSE IF i <= 2 * N + 1 THEN <<"pull", RetSome(i - N - 2)>>
    ELSE IF i = 2 * N + 2 THEN <<"pull", RetNone>>
    ELSE <<"push", N, RetNone>>

C11_ConcreteScenario ==
    script = ScenarioScript(N) =>
        \A i \in 1 .. Len(log) : log[i] = ScenarioExpected(i)

C11_Witness ==
    /\ N = 4
    /\ script = ScenarioScript(N)
    /\ Len(log) = Len(script)
    /\ log[5] = <<"push", 4, RetSome(4)>>
    /\ log[11] = <<"push", 4, RetNone>>

\* C12: init() with a capacity that is no power of two panics and yields no
\* handle; with a power of two it yields both handles on a buffer of N
\* slots, and as long as no push has been accepted all six cursors are zero,
\* every slot is uninitialised and every pull returns None.
Untouched == pushed = << >> /\ wpc = "idle"

C12_Construction ==
    /\ ~IsPowerOfTwo(N) =>
          /\ init_panicked
          /\ ~writer_alive /\ ~reader_alive /\ ~torn_down
          /\ buffer = << >>
    /\ IsPowerOfTwo(N) =>
          /\ ~init_panicked
          /\ DOMAIN buffer = 0 .. N - 1
          /\ (Untouched /\ ~torn_down) => writer_alive \/ reader_alive
          /\ Untouched =>
                /\ idx_r = 0 /\ idx_w = 0
                /\ local_idx_w = 0 /\ cached_idx_r = 0
                /\ local_idx_r = 0 /\ cached_idx_w = 0
                /\ \A i \in DOMAIN buffer : buffer[i] = << >>
                /\ pull_ret \in {NoRet, RetNone}

C12_Witness ==
    /\ N = 4
    /\ Untouched
    /\ writer_alive /\ reader_alive
    /\ pull_ret = RetNone

C12_WitnessPanic == N = 3 /\ init_panicked /\ ~writer_alive /\ ~reader_alive

\* C13: no call waits: inside a push, pull or len the caller's next step
\* can always be taken whatever the other side has done, and every step
\* moves the call forward (check, load, store/take, publish, return), so a
\* push or pull returns within four of its caller's steps and a len in two.
Rank(pc) ==
    CASE pc = "idle" -> 0
      [] pc = "load" -> 1
      [] pc = "len" -> 1
      [] pc = "store" -> 2
      [] pc = "take" -> 2
      [] pc = "publish" -> 3
      [] pc = "panicked" -> 4

NoWaiting ==
    /\ wpc = "load" => ENABLED PushLoad
    /\ wpc = "store" => ENABLED PushStore
    /\ wpc = "publish" => ENABLED PushPublish
    /\ rpc = "load" => ENABLED PullLoad
    /\ rpc = "take" => ENABLED PullTake
    /\ rpc = "publish" => ENABLED PullPublish
    /\ rpc = "len" => ENABLED LenReturn
    /\ (writer_alive /\ wpc = "idle") => \A t \in Values : ENABLED PushCheck(t)
    /\ (reader_alive /\ rpc = "idle") => ENABLED PullCheck /\ ENABLED LenLoad

Forward ==
    /\ wpc' # wpc => (wpc' = "idle" \/ Rank(wpc') > Rank(wpc))
    /\ rpc' # rpc => (rpc' = "idle" \/ Rank(rpc') > Rank(rpc))

C13_NonBlocking == []NoWaiting /\ [][Forward]_vars

\* a push facing a full buffer whose reader is gone for good
C13_Witness ==
    /\ wpc = "load"
    /\ WrapSub(local_idx_w, idx_r) = N
    /\ ~reader_alive

\* the physical slots of the cursors from, from + 1, .., up to - 1
SlotsOf(from, upto) ==
    {SlotOf(WrapAdd(from, k)) : k \in 0 .. WrapSub(upto, from) - 1}

InitSlots == {i \in DOMAIN buffer : buffer[i] # << >>}

\* C14 as claimed: in every reachable state, also in the middle of a push
\* or a pull, the initialised slots are exactly those of the cursors in
\* [idx_r, idx_w).
C14_LiveSlotsAlways == ~torn_down => InitSlots = SlotsOf(idx_r, idx_w)

\* C14 as amended: while the buffer exists the initialised slots are exactly
\* those of the cursors in [idx_r, idx_w), but for a push between its store
\* and its publication, whose slot idx_w is initialised already, and a pull
\* between its move-out and its publication, whose slot idx_r is
\* uninitialised already.
C14_LiveSlots ==
    ~torn_down =>
        InitSlots =
            SlotsOf(IF rpc = "publish" THEN WrapAdd(idx_r, 1) ELSE idx_r,
                    IF wpc = "publish" THEN WrapAdd(idx_w, 1) ELSE idx_w)

C14_Witness ==
    /\ wpc = "publish"
    /\ rpc = "publish"
    /\ N = 4
    /\ Len(pulled) >= 1
    /\ Cardinality(InitSlots) = 2
    /\ InitSlots # SlotsOf(idx_r, idx_w)

\* C15: the slot a push is about to store into and the slot a pull is about
\* to move out of are never the same: the writer's slot lies outside the
\* cursors [idx_r, idx_w) the reader may read, and the reader's slot is a
\* published one, which the writer cannot reach before idx_r moves past it.
C15_NoSlotRace ==
    /\ wpc = "store" =>
          /\ WrapSub(local_idx_w, idx_r) < N
          /\ SlotOf(local_idx_w) \notin SlotsOf(idx_r, idx_w)
    /\ rpc = "take" =>
          /\ WrapSub(idx_w, local_idx_r) \in 1 .. N
          /\ SlotOf(local_idx_r) \in SlotsOf(idx_r, idx_w)
    /\ (wpc = "store" /\ rpc = "take") =>
          SlotOf(local_idx_w) # SlotOf(local_idx_r)

C15_Witness ==
    /\ wpc = "store"
    /\ rpc = "take"
    /\ N = 2
    /\ local_idx_w = 7
    /\ local_idx_r = 6

\* C16: a push has stored its element when it publishes and not before it
\* stores, a pull has moved its element out when it publishes; the slot a
\* pull moves out of is initialised and holds the element of the push that
\* moved the write cursor past it, and the slot a push stores into is free.
C16_PublicationOrder ==
    /\ wpc = "store" =>
          /\ buffer[SlotOf(local_idx_w)] = << >>
          /\ idx_w = local_idx_w
    /\ wpc = "publish" =>
          /\ buffer[SlotOf(local_idx_w)] = push_t
          /\ idx_w = local_idx_w
    /\ rpc = "take" =>
          /\ Len(pushed) > Len(pulled)
          /\ buffer[SlotOf(local_idx_r)] = <<pushed[Len(pulled) + 1]>>
    /\ rpc = "publish" =>
          /\ buffer[SlotOf(local_idx_r)] = << >>
          /\ idx_r = local_idx_r
          /\ Len(pushed) > Len(pulled)
          /\ pull_t = <<pushed[Len(pulled) + 1]>>

C16_Witness ==
    /\ rpc = "take"
    /\ wpc = "publish"
    /\ Len(pulled) >= 4
    /\ SlotOf(local_idx_r) # 0

\* C17: a step of push changes no reader state and not idx_r, and at most
\* one slot; a step of pull changes no writer state and not idx_w, and at
\* most one slot; a step of len changes no cursor and no slot.  The step
\* that returns None from push moves idx_w on by one, the step that returns
\* Some from pull moves idx_r on by one, and no other step moves them.
ChangedSlots == {i \in DOMAIN buffer : buffer'[i] # buffer[i]}

PushFrame ==
    wpc' # wpc =>
        /\ UNCHANGED <<idx_r, reader, lenv, N>>
        /\ Cardinality(ChangedSlots) <= 1
        /\ idx_w' = IF wpc = "publish" THEN WrapAdd(idx_w, 1) ELSE idx_w
        /\ (wpc = "publish") = (push_ret' = RetNone)

PullFrame ==
    (rpc' # rpc /\ rpc # "len" /\ rpc' # "len") =>
        /\ UNCHANGED <<idx_w, writer, N>>
        /\ Cardinality(ChangedSlots) <= 1
        /\ idx_r' = IF rpc = "publish" THEN WrapAdd(idx_r, 1) ELSE idx_r
        /\ (rpc = "publish") = (pull_ret' # NoRet /\ pull_ret' # RetNone)

LenFrame ==
    (rpc' # rpc /\ (rpc = "len" \/ rpc' = "len")) =>
        UNCHANGED <<shared, writer, local_idx_r, cached_idx_w, hist>>

C17_Frame == [][PushFrame /\ PullFrame /\ LenFrame]_vars

C17_Witness ==
    /\ push_ret = RetNone
    /\ Returned
    /\ idx_w = 0
    /\ idx_r = 0
    /\ Len(pushed) = Modulus

\* C18: in runs whose cursors wrap, FIFO order, the capacity bound, the
\* exactness of the full and of the empty signal, the teardown and the slot
\* mapping (consecutive cursors, also across the wrap, address consecutive
\* slots modulo N) all hold.
SlotMapping ==
    \A i \in 0 .. Modulus - 1 :
        /\ SlotOf(i) = i % N
        /\ SlotOf(WrapAdd(i, 1)) = (SlotOf(i) + 1) % N

C18_WrapCorrect ==
    /\ C1_FifoOrder
    /\ C2_CapacityBound
    /\ C3_FullSignalExact
    /\ C4_EmptySignalExact
    /\ C8_CleanupComplete
    /\ SlotMapping

\* a push rejected on a buffer that is full across the second wrap
C18_Witness ==
    /\ Len(pushed) >= 2 * Modulus
    /\ Rejected
    /\ push_occ = <<N>>
    /\ local_idx_w < cached_idx_r
    /\ N = 4

\* a teardown of elements that lie across the wrap
C18_WitnessDrop ==
    /\ torn_down
    /\ Len(destructed) >= 2
    /\ idx_w < idx_r
    /\ Len(pushed) >= 2 * Modulus

\* C19: the value a len() call returned is at least the occupancy when the
\* call loaded the write cursor at its entry, at most the occupancy since
\* its exit (while the reader makes no other call), and at most N.
C19_LenAdvisoryBounds ==
    len_ret # NoRet =>
        /\ len_ret[1] = "Ok"
        /\ WrapSub(write_index[1], read_index[1]) <= len_ret[2]
        /\ len_ret[2] <= Occupancy
        /\ len_ret[2] <= N

\* C20: counted from the writer's cached read cursor, in wrapping
\* arithmetic, the cursors are ordered cached_idx_r <= idx_r <= local_idx_r
\* <= cached_idx_w <= idx_w <= local_idx_w <= cached_idx_r + N; outside a
\* push idx_w = local_idx_w, and outside a pull idx_r = local_idx_r.
Ahead(idx) == WrapSub(idx, cached_idx_r)

C20_CachedCursorsSound ==
    /\ Ahead(idx_r) <= Ahead(local_idx_r)
    /\ Ahead(local_idx_r) <= Ahead(cached_idx_w)
    /\ Ahead(cached_idx_w) <= Ahead(idx_w)
    /\ Ahead(idx_w) <= Ahead(local_idx_w)
    /\ Ahead(local_idx_w) <= N
    /\ wpc = "idle" => idx_w = local_idx_w
    /\ rpc \in {"idle", "len", "panicked"} => idx_r = local_idx_r

\* both cached cursors stale, across the wrap
C20_Witness ==
    /\ N = 4
    /\ idx_w = 0
    /\ cached_idx_r # idx_r
    /\ cached_idx_w # idx_w
    /\ cached_idx_w # local_idx_r
    /\ Ahead(local_idx_w) = N

====
